---- MODULE Spec2Model ----
(***************************************************************************)
(* Model of the plate layout engine of dxf-cheddar (generate_dxf.py and    *)
(* its older variant main.py): frame flattening, hole attachment with fit  *)
(* checks, and the even-spacing placement done by DXF.add_rectangle.       *)
(*                                                                         *)
(* Numbers.  The source computes with Python floats.  The model computes   *)
(* exactly, with integers:                                                 *)
(*   - every length is counted in HALF units (a source length L is the     *)
(*     integer 2*L), so the bend allowances 1 and 0.5 are 2 and 1 and the  *)
(*     default thickness 1 is 2;                                           *)
(*   - a coordinate computed by add_rectangle is kept as a numerator over  *)
(*     the denominator Den(n) = 2*(n-1), n the number of holes, which      *)
(*     makes hole.width/2 and space_remaining/(n-1) exact.                 *)
(* Floating-point rounding is therefore not modelled.                      *)
(*                                                                         *)
(* Record constructors list their fields in the order in which TLC keeps   *)
(* them, so that no record is ever re-sorted while several workers read it.*)
(***************************************************************************)
EXTENDS Integers, Sequences, FiniteSets, TLC

VARIABLES
    module,     \* which script runs: "generate_dxf" or "main"
    rect,       \* the Rectangle under construction (NoRect before the first one)
    msp,        \* DXF.msp: the entities emitted to the model space, in order;
                \* each is kept as its kind, the rectangle (by ordinal) and
                \* the hole (by position) it was drawn for
    last,       \* the last call: operation, outcome, arguments, the state
                \* before it, and what it computed
    all_ok,     \* every add_holes call on rect so far returned normally
    attached,   \* add_holes has been called on rect
    drawn,      \* rect has been handed to add_rectangle
    nrect       \* rectangles constructed so far

vars == <<module, rect, msp, last, all_ok, attached, drawn, nrect>>

----------------------------------------------------------------------------
\* Bounds of the model (lengths in half units).

MaxWidth == 10
MaxHeight == 5
MaxOffset == 3
MaxRadius == 2
MaxBatch == 2
MaxHoles == 2
MaxRectangles == 1
MaxStart == 1

Modules == {"generate_dxf", "main"}
Widths == {MaxWidth - 4, MaxWidth}
Heights == {MaxHeight - 1, MaxHeight}
Offsets == {0, MaxOffset}
Radii == {1, MaxRadius}
Angles == {45, 90}
Thicknesses == {1, 2}
Starts == {0, MaxStart}

NoRect == [none |-> TRUE]
NoFrame == [kind |-> "none"]

----------------------------------------------------------------------------
\* Hole model.

\* math.sin / math.cos, on the one slot angle whose sine and cosine are exact.
SlotAngles == {0}
Sin(a) == CASE a = 0 -> 0
Cos(a) == CASE a = 0 -> 1

Circle(radius) ==
    [kind |-> "Circle", radius |-> radius, length |-> 0, angle |-> 0,
     height |-> radius * 2, width |-> radius * 2]

Slot(mod, radius, length, angle) ==
    [kind |-> "Slot", radius |-> radius, length |-> length, angle |-> angle,
     height |-> IF mod = "generate_dxf"
                THEN (length * Sin(angle)) + (2 * radius)
                ELSE (length + (2 * radius)) * Sin(angle),
     width |-> IF mod = "generate_dxf"
               THEN (length * Cos(angle)) + (2 * radius)
               ELSE (length + (2 * radius)) * Cos(angle)]

HoleSet(mod) == {Circle(r) : r \in Radii} \cup {Slot(mod, 1, 2, a) : a \in SlotAngles}

----------------------------------------------------------------------------
\* Frame model.

L_frame(width, horizontal_length, vertical_length, angle, thickness) ==
    [kind |-> "L", angle |-> angle, width |-> width,
     horizontal_length |-> horizontal_length,
     vertical_length |-> vertical_length, thickness |-> thickness]

U_frame(width, horizontal_length, vertical_length_left, vertical_length_right, angle_left, angle_right, thickness) ==
    [kind |-> "U", width |-> width, horizontal_length |-> horizontal_length,
     thickness |-> thickness,
     vertical_length_left |-> vertical_length_left,
     vertical_length_right |-> vertical_length_right,
     angle_left |-> angle_left, angle_right |-> angle_right]

----------------------------------------------------------------------------
\* Rectangle.

Rectangle(width, height, offset_from_side, offset_from_bottom, thickness) ==
    [height |-> height, width |-> width, thickness |-> thickness,
     offset_from_side |-> offset_from_side,
     offset_from_bottom |-> offset_from_bottom,
     holes |-> <<>>, holes_total_width |-> 0]

\* Rectangle(a, b, c): three positional arguments, the rest defaulted
\* (offset_from_bottom = 0, thickness = 1, which is 2 half units).
Rectangle3(a, b, c) == Rectangle(a, b, c, 0, 2)

\* `l_frame == 90` of main.py: an L_frame object compared with an int.  L_frame
\* defines no __eq__, so the comparison is by identity and is False.
ObjectEqualsInt(obj, n) == FALSE

\* the bend allowance 1 (angle 90) or 0.5 (otherwise), in half units
from_L_frame(mod, l_frame) ==
    LET is90 == IF mod = "generate_dxf" THEN l_frame.angle = 90
                ELSE ObjectEqualsInt(l_frame, 90)
        height == l_frame.horizontal_length + l_frame.vertical_length
                  - (IF is90 THEN 2 ELSE 1)
    IN Rectangle3(l_frame.width, height, l_frame.thickness)

from_U_frame(u_frame) ==
    LET height == u_frame.horizontal_length + u_frame.vertical_length_left
                  + u_frame.vertical_length_right
                  - (IF u_frame.angle_left = 90 THEN 2 ELSE 1)
                  - (IF u_frame.angle_right = 90 THEN 2 ELSE 1)
    IN Rectangle3(u_frame.width, height, u_frame.thickness)

\* a width check that lets the holes fill the width exactly
FitsWidth_ge(self) ==
    self.width >= (2 * self.offset_from_side) + self.holes_total_width

\* first assert of add_holes
FitsWidth(self) ==
    self.width > (2 * self.offset_from_side) + self.holes_total_width

\* second assert of add_holes
FitsHeight(self, hole) ==
    self.height >= self.offset_from_bottom + hole.height

RECURSIVE add_holes_checkAtEnd(_, _, _)
\* a loop that notes the first failing hole but goes on appending
add_holes_checkAtEnd(self, holes, k) ==
    IF k > Len(holes) THEN [rect |-> self, err |-> "none", at |-> 0]
    ELSE LET hole == holes[k]
             s1 == [self EXCEPT !.holes = Append(@, hole),
                                !.holes_total_width = @ + hole.width]
             rest == add_holes_checkAtEnd(s1, holes, k + 1)
         IN IF ~FitsWidth(s1)
            THEN [rect |-> rest.rect, err |-> "AssertionError: holes don't fit into the rectangle", at |-> k]
            ELSE IF ~FitsHeight(s1, hole)
            THEN [rect |-> rest.rect, err |-> "AssertionError: hole too large", at |-> k]
            ELSE rest

RECURSIVE add_holes(_, _, _)
\* Rectangle.add_holes from the k-th hole of the batch on: the rectangle
\* after the call, the error raised ("none" on a normal return) and the
\* position in the batch of the hole at which it was raised.
add_holes(self, holes, k) ==
    IF k > Len(holes) THEN [rect |-> self, err |-> "none", at |-> 0]
    ELSE LET hole == holes[k]
             s1 == [self EXCEPT !.holes = Append(@, hole),
                                !.holes_total_width = @ + hole.width]
         IN IF ~FitsWidth(s1)
            THEN [rect |-> s1, err |-> "AssertionError: holes don't fit into the rectangle", at |-> k]
            ELSE IF ~FitsHeight(s1, hole)
            THEN [rect |-> s1, err |-> "AssertionError: hole too large", at |-> k]
            ELSE add_holes(s1, holes, k + 1)

---------------------------------------------------------------------------------------------------------------------------------------------------
\* Drawing assembler.

\* denominator of the coordinates computed for a rectangle with n holes
Den(n) == 2 * (n - 1)

\* an entity of the model space
Entity(kind, owner, hole) == [rect |-> owner, kind |-> kind, hole |-> hole]

\* a circle as add_circle receives it: center (x/den, y/den) and radius
Placed(hole, x, y, den, radius) ==
    [radius |-> radius, hole |-> hole, x |-> x, y |-> y, den |-> den]

space_remaining(rectangle) ==
    (rectangle.width - (2 * rectangle.offset_from_side))
    - rectangle.holes_total_width

\* a guard that lets a single hole through
InsufficientHoles_lt(rectangle) == Len(rectangle.holes) < 1

\* the guard of the ValueError
InsufficientHoles(rectangle) == Len(rectangle.holes) <= 1

\* hole_center_x of the i-th hole (0-indexed), times Den(n)
hole_center_x(rectangle, start_from_x, i) ==
    LET n == Len(rectangle.holes)
        hole == rectangle.holes[i + 1]
    IN Den(n) * (start_from_x + rectangle.offset_from_side + i * hole.width)
       + (n - 1) * hole.width
       + 2 * i * space_remaining(rectangle)

\* hole_center_y of the i-th hole (0-indexed), times Den(n)
hole_center_y(rectangle, start_from_y, i) ==
    LET n == Len(rectangle.holes)
        hole == rectangle.holes[i + 1]
    IN Den(n) * (start_from_y + rectangle.offset_from_bottom)
       + (n - 1) * hole.height

\* the circles drawn for the i-th hole (0-indexed): one for a Circle, the two
\* end circles (left, right) for a Slot
HoleCircles(rectangle, start_from_x, start_from_y, i) ==
    LET n == Len(rectangle.holes)
        hole == rectangle.holes[i + 1]
        cx == hole_center_x(rectangle, start_from_x, i)
        cy == hole_center_y(rectangle, start_from_y, i)
        dx == (n - 1) * hole.length * Cos(hole.angle)
        dy == (n - 1) * hole.length * Sin(hole.angle)
    IN IF hole.kind = "Circle"
       THEN <<Placed(i, cx, cy, Den(n), hole.radius)>>
       ELSE IF hole.kind = "Slot"
       THEN <<Placed(i, cx - dx, cy + dy, Den(n), hole.radius),
              Placed(i, cx + dx, cy - dy, Den(n), hole.radius)>>
       ELSE <<>>

RECURSIVE EmitHoles(_, _, _, _)
\* the circles drawn by the first k iterations of the loop over the holes
EmitHoles(rectangle, start_from_x, start_from_y, k) ==
    IF k = 0 THEN <<>>
    ELSE EmitHoles(rectangle, start_from_x, start_from_y, k - 1)
         \o HoleCircles(rectangle, start_from_x, start_from_y, k - 1)

\* DXF.add_rectangle of the owner-th rectangle: the model space after the
\* call, the error raised, the hole centers computed (numerators over Den(n))
\* and the circles drawn
add_rectangle(space, rectangle, owner, start_from_x, start_from_y) ==
    LET n == Len(rectangle.holes)
        outlined == Append(space, Entity("LWPOLYLINE", owner, 0))
        circles == EmitHoles(rectangle, start_from_x, start_from_y, n)
    IN IF InsufficientHoles(rectangle)
       THEN [msp |-> outlined, err |-> "ValueError", circles |-> <<>>,
             centers |-> <<>>]
       ELSE [msp |-> outlined
                     \o [j \in 1..Len(circles) |->
                           Entity("CIRCLE", owner, circles[j].hole)],
             err |-> "none",
             circles |-> circles,
             centers |-> [i \in 1..n |->
                            [x |-> hole_center_x(rectangle, start_from_x, i - 1),
                             y |-> hole_center_y(rectangle, start_from_y, i - 1)]]]

----------------------------------------------------------------------------
\* The program: a caller that builds rectangles, attaches holes and draws.

NoCall ==
    [err |-> "none", at |-> 0, circles |-> <<>>, centers |-> <<>>,
     op |-> "none", batch |-> <<>>, frame |-> NoFrame, start_x |-> 0,
     pre_rect |-> NoRect, pre_msp |-> <<>>]

Init ==
    /\ module \in Modules
    /\ rect = NoRect
    /\ msp = <<>>
    /\ last = NoCall
    /\ all_ok = TRUE
    /\ attached = FALSE
    /\ drawn = FALSE
    /\ nrect = 0

\* the caller is done with the rectangle at hand: there is none yet, or it
\* has been drawn (or its drawing was refused)
Done == rect = NoRect \/ drawn

Constructed(r, f, op) ==
    /\ Done
    /\ nrect < MaxRectangles
    /\ rect' = r
    /\ last' = [NoCall EXCEPT !.op = op, !.frame = f, !.pre_msp = msp]
    /\ all_ok' = TRUE
    /\ attached' = FALSE
    /\ drawn' = FALSE
    /\ nrect' = nrect + 1
    /\ UNCHANGED <<module, msp>>

\* Rectangle(width=..., height=..., offset_from_side=..., offset_from_bottom=...)
NewRectangle ==
    \E w \in Widths, h \in Heights, os \in Offsets, ob \in Offsets :
        Constructed(Rectangle(w, h, os, ob, 2), NoFrame, "Rectangle")

\* Rectangle.from_L_frame(L_frame(...))
FlattenL ==
    \E w \in Widths, a \in Angles, t \in Thicknesses :
        LET f == L_frame(w, MaxHeight - 1, 2, a, t)
        IN Constructed(from_L_frame(module, f), f, "from_L_frame")

\* Rectangle.from_U_frame(U_frame(...)), which only generate_dxf.py has
FlattenU ==
    /\ module = "generate_dxf"
    /\ \E w \in Widths, al \in Angles, ar \in Angles, t \in Thicknesses :
        LET f == U_frame(w, MaxHeight - 1, 2, 2, al, ar, t)
        IN Constructed(from_U_frame(f), f, "from_U_frame")

\* rectangle.offset_from_side = ...; rectangle.offset_from_bottom = ...
\* (the caller sets them after flattening, before it attaches holes)
SetOffsets ==
    /\ rect # NoRect
    /\ ~attached
    /\ ~drawn
    /\ \E os \in Offsets, ob \in Offsets :
        /\ rect' = [rect EXCEPT !.offset_from_side = os, !.offset_from_bottom = ob]
        /\ last' = [NoCall EXCEPT !.op = "set_offsets", !.pre_rect = rect,
                                  !.pre_msp = msp]
    /\ UNCHANGED <<module, msp, all_ok, attached, drawn, nrect>>

Batches(mod) == UNION {[1..n -> HoleSet(mod)] : n \in 0..MaxBatch}

\* rectangle.add_holes(batch); an AssertionError leaves the rectangle as the
\* loop left it, and the caller may go on using it
AddHoles ==
    /\ rect # NoRect
    /\ ~drawn
    /\ \E batch \in Batches(module) :
        /\ Len(rect.holes) + Len(batch) <= MaxHoles
        /\ LET res == add_holes(rect, batch, 1)
           IN /\ rect' = res.rect
              /\ last' = [NoCall EXCEPT !.op = "add_holes", !.err = res.err,
                                        !.at = res.at, !.batch = batch,
                                        !.pre_rect = rect, !.pre_msp = msp]
              /\ all_ok' = (all_ok /\ res.err = "none")
    /\ attached' = TRUE
    /\ UNCHANGED <<module, msp, drawn, nrect>>

\* dxf.add_rectangle(rectangle, start_from_x); a ValueError leaves the model
\* space as the call left it, and the caller may go on with the next rectangle
AddRectangle ==
    /\ rect # NoRect
    /\ ~drawn
    /\ \E sx \in Starts :
        LET res == add_rectangle(msp, rect, nrect, sx, 0)
        IN /\ msp' = res.msp
           /\ last' = [NoCall EXCEPT !.op = "add_rectangle", !.err = res.err,
                                     !.start_x = sx, !.pre_rect = rect,
                                     !.pre_msp = msp, !.centers = res.centers,
                                     !.circles = res.circles]
    /\ drawn' = TRUE
    /\ UNCHANGED <<module, rect, all_ok, attached, nrect>>

Next ==
    \/ NewRectangle
    \/ FlattenL
    \/ FlattenU
    \/ SetOffsets
    \/ AddHoles
    \/ AddRectangle

Spec == Init /\ [][Next]_vars

----------------------------------------------------------------------------
\* Properties.

RECURSIVE SumWidths(_, _)
\* sum of the widths of holes[1..k]
SumWidths(holes, k) ==
    IF k = 0 THEN 0 ELSE SumWidths(holes, k - 1) + holes[k].width

\* the fit invariant of the data model, stated on a rectangle
FitInvariant(r) ==
    /\ r.width > 2 * r.offset_from_side + r.holes_total_width
    /\ \A i \in 1..Len(r.holes) :
           r.height >= r.offset_from_bottom + r.holes[i].height

\* the position in the batch of the first hole after whose append one of the
\* fit conditions fails, computed from the running sums; 0 if there is none
FirstViolation(pre, batch) ==
    LET bad == {k \in 1..Len(batch) :
                   \/ pre.holes_total_width + SumWidths(batch, k)
                        + 2 * pre.offset_from_side >= pre.width
                   \/ pre.offset_from_bottom + batch[k].height > pre.height}
    IN IF bad = {} THEN 0 ELSE CHOOSE k \in bad : \A j \in bad : k <= j

\* left and right edge of the i-th placed hole (1-indexed), times Den(n)
LeftEdge(i) == last.centers[i].x - (Len(rect.holes) - 1) * rect.holes[i].width
RightEdge(i) == last.centers[i].x + (Len(rect.holes) - 1) * rect.holes[i].width

\* add_rectangle has just laid out a rectangle that has at least two holes
\* and satisfies the fit invariant
LaidOutFit ==
    /\ last.op = "add_rectangle"
    /\ Len(rect.holes) >= 2
    /\ FitInvariant(rect)

\* C1 (as stated): after every add_holes call that returns normally, all
\* calls before it on the rectangle having returned normally too, the
\* rectangle satisfies the fit invariant.
C1_FitAfterEverySuccessfulCall ==
    (last.op = "add_holes" /\ last.err = "none" /\ all_ok) => FitInvariant(rect)

\* C1 (amended): a rectangle that holds at least one hole, all add_holes
\* calls on it having returned normally, satisfies the fit invariant.
C1_FitOnceAHoleIsAttached ==
    (rect # NoRect /\ all_ok /\ Len(rect.holes) >= 1) => FitInvariant(rect)

\* two successful non-empty add_holes calls in a row
C1_Witness ==
    /\ last.op = "add_holes" /\ last.err = "none" /\ all_ok
    /\ Len(last.batch) >= 1
    /\ Len(last.pre_rect.holes) >= 1

\* C2: add_holes fails at the first hole of the batch after whose append a
\* fit condition is violated; the holes up to and including it are attached
\* and counted, none of the later ones is.
C2_FailsAtFirstViolation ==
    last.op = "add_holes" =>
        LET pre == last.pre_rect
            k == FirstViolation(pre, last.batch)
        IN k > 0 =>
            /\ last.err # "none"
            /\ last.at = k
            /\ rect.holes = pre.holes \o SubSeq(last.batch, 1, k)
            /\ rect.holes_total_width
                 = pre.holes_total_width + SumWidths(last.batch, k)

\* a call that failed before the last hole of its batch
C2_Witness ==
    /\ last.op = "add_holes" /\ last.err # "none"
    /\ last.at >= 1 /\ last.at < Len(last.batch)

\* C3: add_rectangle raises the ValueError exactly when the rectangle holds
\* 0 or 1 holes, whatever its dimensions and offsets; otherwise it returns
\* normally.
C3_ValueErrorIffFewerThanTwoHoles ==
    last.op = "add_rectangle" =>
        /\ Len(rect.holes) <= 1 => last.err = "ValueError"
        /\ Len(rect.holes) >= 2 => last.err = "none"

\* a rectangle with one hole that fits was refused
C3_Witness ==
    /\ last.op = "add_rectangle" /\ last.err = "ValueError"
    /\ Len(rect.holes) = 1 /\ FitInvariant(rect)

\* C4: for holes of any widths on a rectangle satisfying the fit invariant,
\* add_rectangle computes one center per hole and the edge-to-edge gap of
\* every pair of consecutive holes is space_remaining / (count - 1).
C4_EqualGaps ==
    LaidOutFit =>
        /\ Len(last.centers) = Len(rect.holes)
        /\ \A i \in 1..(Len(rect.holes) - 1) :
               LeftEdge(i + 1) - RightEdge(i) = 2 * space_remaining(rect)

\* C5: the center of hole i (0-indexed) is start_x + offset_from_side
\* + (sum of the widths of holes 0..i-1) + width[i]/2 + i*gap, also for
\* holes of differing widths.
C5_CenterFormula ==
    (last.op = "add_rectangle" /\ Len(rect.holes) >= 2) =>
        \A i \in 0..(Len(rect.holes) - 1) :
            last.centers[i + 1].x
              = Den(Len(rect.holes))
                  * (last.start_x + rect.offset_from_side
                     + SumWidths(rect.holes, i))
                + (Len(rect.holes) - 1) * rect.holes[i + 1].width
                + 2 * i * space_remaining(rect)

\* C6: in both scripts from_L_frame returns height = horizontal_length +
\* vertical_length - 1 for angle 90 and - 0.5 for any other angle.
C6_BendAllowance ==
    last.op = "from_L_frame" =>
        rect.height = last.frame.horizontal_length + last.frame.vertical_length
                      - (IF last.frame.angle = 90 THEN 2 ELSE 1)

\* C7: the rectangle returned by from_L_frame or from_U_frame has the
\* frame's thickness, zero offsets and no holes.
C7_FlattenedDefaults ==
    last.op \in {"from_L_frame", "from_U_frame"} =>
        /\ rect.thickness = last.frame.thickness
        /\ rect.offset_from_side = 0
        /\ rect.offset_from_bottom = 0
        /\ rect.holes = <<>>
        /\ rect.holes_total_width = 0

\* C8: when add_rectangle fails with the ValueError, the model space holds
\* exactly the entities it held before the call.
C8_NothingEmittedOnValueError ==
    (last.op = "add_rectangle" /\ last.err = "ValueError") => msp = last.pre_msp

\* C9: a failed add_holes call leaves the offending hole out of the holes
\* list and of holes_total_width, so that the width condition still holds
\* if it held before the call.
C9_FailedCallLeavesOffendingHoleOut ==
    (last.op = "add_holes" /\ last.err # "none") =>
        /\ rect.holes
             = last.pre_rect.holes \o SubSeq(last.batch, 1, last.at - 1)
        /\ rect.holes_total_width
             = last.pre_rect.holes_total_width
               + SumWidths(last.batch, last.at - 1)
        /\ (FitsWidth(last.pre_rect) => FitsWidth(rect))

\* C10: on a rectangle satisfying the fit invariant every placed hole lies
\* between start_x + offset_from_side and start_x + width - offset_from_side,
\* the first hole's left edge and the last hole's right edge exactly there.
C10_HolesInsidePlate ==
    LaidOutFit =>
        LET n == Len(rect.holes)
            lo == Den(n) * (last.start_x + rect.offset_from_side)
            hi == Den(n) * (last.start_x + rect.width - rect.offset_from_side)
        IN /\ \A i \in 1..n : lo <= LeftEdge(i) /\ RightEdge(i) <= hi
           /\ LeftEdge(1) = lo
           /\ RightEdge(n) = hi

====
